---- MODULE Spec2Model ----
(***************************************************************************)
(* Telemetry ingestion and zone alarm handling of the IoT fire-control     *)
(* platform: src/src/application/mqtt_handler.py (MQTT message handler)    *)
(* and src/src/application/fcs_api.py (administrative REST handlers).      *)
(*                                                                         *)
(* The persistent store (DB_SERVICE) and the record factory (DR_FACTORY)   *)
(* are collaborators whose code is not part of the two source files.  The  *)
(* store is modelled from its contract in the specification: atomic        *)
(* single-document get / query / insert / update / delete, no atomic       *)
(* read-modify-write, a uniqueness constraint on the node device address,  *)
(* none on alarms.  Every store call of a handler is one atomic step; the  *)
(* steps of different handlers interleave freely.  Documents are laid out  *)
(* as mqtt_handler.py reads them (zone['data']['status'], node['data'],    *)
(* node['profile']); fcs_api.py reads 'entity.data' instead, which changes *)
(* nothing here because its handlers end in a 500 either way.              *)
(*                                                                         *)
(* fcs_api.py imports the class with "from datetime import datetime"       *)
(* (line 2) and then evaluates datetime.now(datetime.timezone.utc).  The   *)
(* class datetime.datetime has no attribute "timezone", so each such       *)
(* evaluation raises AttributeError, which the handler's own               *)
(* "except Exception" turns into a 500 response.  Whatever a REST handler  *)
(* does after its first timestamp is therefore never executed; the         *)
(* actions below model the handlers up to that point.                      *)
(***************************************************************************)
EXTENDS Integers, Sequences, FiniteSets, TLC

\* ------------------------------------------------------------------ bounds
\* Device addresses, zone identifiers and concurrently running message
\* handlers considered by the model.
Macs == {"m1", "m2"}
ZoneIds == {"z1", "z2"}
Workers == {"w1", "w2"}
\* The handler that exists when messages are dispatched by one thread only.
MainWorker == "w1"
\* No message is taken up once this many alarm records exist.
MaxAlarms == 4

\* --------------------------------------------------------------- constants
DefaultTempThreshold == 50
DefaultSmokeThreshold == 500

AlarmCauses == {"Temperature", "Smoke", "Flame"}
NoZone == ""
NoAlarm == ""

\* ------------------------------------------------------------------ inputs
\* Payloads as they arrive on the wire.  BadBytes stands for a byte string
\* that is not valid UTF-8.
BadBytes == "<not-utf8>"
Payloads == {"online", "0", "50.0", "500.0", "600.0", "abc", BadBytes}

\* Topics, as the list of their "/"-separated segments (topic.split('/')).
Topics ==
    {<<"devices", m, "discovery">> : m \in Macs}
    \cup {<<"devices", m, "sensor", k>> : m \in Macs, k \in {"temp", "smoke", "flame", "humidity"}}
    \cup {<<"devices", m, "sensor">> : m \in Macs}
    \cup {<<"devices", m>> : m \in Macs}

\* The messages that arrive while two handlers run side by side: discovery,
\* temperature and flame messages with well-formed payloads.
RacingTopics ==
    {<<"devices", m, "discovery">> : m \in Macs}
    \cup {<<"devices", m, "sensor", k>> : m \in Macs, k \in {"temp", "flame"}}
RacingPayloads == {"online", "0", "600.0"}

\* Arguments of the REST requests
TriggerCauses == {"manual", "temp", "bogus"}

VARIABLES
    zones,      \* zone documents, by zone id (only the existing zones)
    nodes,      \* node documents, in insertion order; the index is the _id
    alarms,     \* alarm documents, in insertion order
    loc,        \* per message handler: position and local variables
    published   \* commands published on the transport by the last step

vars == <<zones, nodes, alarms, loc, published>>

\* ------------------------------------------------------------ pure helpers
\* msg.payload.decode('utf-8') succeeds
IsUtf8(payload) == payload # BadBytes

\* float(payload_str): the value, for the payloads float() accepts
IsFloat(payload) == payload \in {"0", "50.0", "500.0", "600.0"}
ToFloat(payload) ==
    CASE payload = "0" -> 0
      [] payload = "50.0" -> 50
      [] payload = "500.0" -> 500
      [] payload = "600.0" -> 600

\* (variant: a payload float() rejects is read as 0.0 instead)
ParseReadingLenient(sensor_type, payload) ==
    [ok |-> TRUE,
     val_flame |-> IF sensor_type = "flame" THEN payload = "0" ELSE FALSE,
     val_smoke |-> IF sensor_type = "smoke" /\ IsFloat(payload) THEN ToFloat(payload) ELSE 0,
     val_temp |-> IF sensor_type = "temp" /\ IsFloat(payload) THEN ToFloat(payload) ELSE 0]

\* The three values _process_sensor_data derives from one message, or
\* ok = FALSE when float() raises ValueError.
ParseReading(sensor_type, payload) ==
    LET bad == sensor_type \in {"smoke", "temp"} /\ ~IsFloat(payload)
    IN [ok |-> ~bad,
        val_flame |-> IF sensor_type = "flame" THEN payload = "0" ELSE FALSE,
        val_smoke |-> IF sensor_type = "smoke" /\ ~bad THEN ToFloat(payload) ELSE 0,
        val_temp |-> IF sensor_type = "temp" /\ ~bad THEN ToFloat(payload) ELSE 0]

\* (variant: a reading equal to its threshold counts as exceeding it)
AlarmTypeInclusive(val_temp, val_smoke, val_flame, temp_threshold, smoke_threshold) ==
    IF val_temp >= temp_threshold THEN "Temperature"
    ELSE IF val_smoke >= smoke_threshold THEN "Smoke"
    ELSE IF val_flame THEN "Flame"
    ELSE NoAlarm

\* The cause _check_zone_thresholds selects, NoAlarm when there is none.
AlarmType(val_temp, val_smoke, val_flame, temp_threshold, smoke_threshold) ==
    IF val_temp > temp_threshold THEN "Temperature"
    ELSE IF val_smoke > smoke_threshold THEN "Smoke"
    ELSE IF val_flame THEN "Flame"
    ELSE NoAlarm

\* ------------------------------------------------------------------- store
\* The state a handler works on: the three collections of the store, the
\* handlers' local variables and the commands published so far by the step.
St ==
    [zones |-> zones, nodes |-> nodes, alarms |-> alarms, loc |-> loc, published |-> {}]

\* get_dr('zone', id) finds a document
ZoneExists(st, zone_id) == zone_id \in DOMAIN st.zones

\* query_drs with an exact match on one field
NodesByMac(st, mac_address) ==
    {i \in DOMAIN st.nodes : st.nodes[i].mac_address = mac_address}
NodesInZone(st, zone_id) ==
    {i \in DOMAIN st.nodes : st.nodes[i].zone_id = zone_id}
OpenAlarms(st, zone_id) ==
    {i \in DOMAIN st.alarms :
        st.alarms[i].zone_id = zone_id /\ st.alarms[i].end_time = "null"}
\* the first document of a query result
First(S) == CHOOSE i \in S : \A j \in S : i <= j

\* (variant: a store without the uniqueness constraint)
NodeInsertNeverFails(st, mac_address) == FALSE

\* save_dr('node', dr): the insert fails on a device address already stored
NodeInsertFails(st, mac_address) == NodesByMac(st, mac_address) # {}

\* (variant: a discovered node is taken into service at once)
NewNodeActive(mac_address) ==
    [mac_address |-> mac_address, zone_id |-> NoZone, status |-> "Active",
     has_readings |-> FALSE, temp_level |-> 0, smoke_level |-> 0, flame_detected |-> FALSE]

\* _handle_discovery, lines 207-219: the node document of a new address
NewNode(mac_address) ==
    [mac_address |-> mac_address, zone_id |-> NoZone, status |-> "Provisioning",
     has_readings |-> FALSE, temp_level |-> 0, smoke_level |-> 0, flame_detected |-> FALSE]

NewAlarm(zone_id, alarm_type) ==
    [zone_id |-> zone_id, trigger_cause |-> alarm_type, end_time |-> "null"]

\* ---------------------------------------------------------- handler locals
Idle ==
    [pc |-> "idle", mac_address |-> "", val_temp |-> 0, val_smoke |-> 0,
     val_flame |-> FALSE, node_id |-> 0, node_status |-> "", zone_id |-> NoZone,
     alarm_type |-> NoAlarm]

\* -------------------------------------------------------------------- Init
Zone(status) ==
    [status |-> status, temp_threshold |-> DefaultTempThreshold,
     smoke_threshold |-> DefaultSmokeThreshold]

Member(mac_address, zone_id) ==
    [NewNode(mac_address) EXCEPT !.zone_id = zone_id, !.status = "Active"]

\* An alarm record of an incident that is over
ClosedAlarm(zone_id, alarm_type) ==
    [NewAlarm(zone_id, alarm_type) EXCEPT !.end_time = "t0"]

\* A node registered for a zone but not yet taken into service
Enrolled(mac_address, zone_id) ==
    [NewNode(mac_address) EXCEPT !.zone_id = zone_id]

\* The store as provisioned before the handlers start: both zones exist, z2
\* has no nodes, m1 is an Active member of z1 and the records of m2 are one
\* of tails; z1 has had no alarm yet or one that is closed.
Provisioned(status, tails) ==
    /\ zones = [z \in ZoneIds |-> IF z = "z1" THEN Zone(status) ELSE Zone("Active")]
    /\ \E tail \in tails : nodes = <<Member("m1", "z1")>> \o tail
    /\ \E history \in {<<>>, <<ClosedAlarm("z1", "Temperature")>>} : alarms = history
    /\ loc = [w \in Workers |-> Idle]
    /\ published = {}

\* m2 is unknown or an Active member of z1 as well
Init == Provisioned("Active", {<<>>, <<Member("m2", "z1")>>})

\* The same, with z1 possibly disabled and m2 possibly registered for z1
\* without being in service
InitSeq ==
    \E status \in {"Active", "Inactive"} :
        Provisioned(status, {<<>>, <<Member("m2", "z1")>>, <<Enrolled("m2", "z1")>>})

\* ------------------------------------------------- MQTTHandler._on_message
\* Each operator below is one step of a message handler, from one store call
\* to the next: it maps the state to the state after the step.
Finish(st, w) == [st EXCEPT !.loc[w] = Idle]

\* _on_message, lines 56-88, with _process_sensor_data up to its lookup of
\* the node (lines 91-111) and the changes it makes to its copy of the node
OnMessage(st, w, topic, payload) ==
    LET mac_address == topic[2]
        category == topic[3]
        sensor_type == topic[4]
        r == ParseReading(sensor_type, payload)
        found == NodesByMac(st, mac_address)
        node_id == First(found)
    IN
    IF ~IsUtf8(payload) \/ Len(topic) < 3
      THEN st
    ELSE IF category = "discovery"
      THEN IF payload = "online"
             THEN [st EXCEPT !.loc[w].pc = "disc_query",
                             !.loc[w].mac_address = mac_address]
             ELSE st
    ELSE IF category = "sensor" /\ Len(topic) > 3
      THEN IF ~r.ok
             THEN st
           ELSE IF found = {}
             THEN [st EXCEPT !.loc[w].pc = "disc_query",
                             !.loc[w].mac_address = mac_address]
           ELSE [st EXCEPT !.loc[w].pc = "upd_node",
                           !.loc[w].mac_address = mac_address,
                           !.loc[w].val_temp = r.val_temp,
                           !.loc[w].val_smoke = r.val_smoke,
                           !.loc[w].val_flame = r.val_flame,
                           !.loc[w].node_id = node_id,
                           !.loc[w].node_status = st.nodes[node_id].status,
                           !.loc[w].zone_id = st.nodes[node_id].zone_id]
    ELSE st

\* _handle_discovery, line 201: the lookup by device address
HandleDiscoveryQuery(st, w) ==
    IF NodesByMac(st, st.loc[w].mac_address) # {}
      THEN Finish(st, w)
      ELSE [st EXCEPT !.loc[w].pc = "disc_save"]

\* _handle_discovery, lines 206-223: the insert; a failing insert is logged
HandleDiscoverySave(st, w) ==
    IF NodeInsertFails(st, st.loc[w].mac_address)
      THEN Finish(st, w)
      ELSE Finish([st EXCEPT !.nodes = Append(@, NewNode(st.loc[w].mac_address))], w)

\* (variant: the thresholds are checked for every node that has a zone)
ProcessSensorDataUpdateAnyStatus(st, w) ==
    LET l == st.loc[w]
        node == [mac_address |-> l.mac_address,
                 zone_id |-> l.zone_id,
                 status |-> l.node_status,
                 has_readings |-> TRUE,
                 temp_level |-> l.val_temp,
                 smoke_level |-> l.val_smoke,
                 flame_detected |-> l.val_flame]
        stored == [st EXCEPT !.nodes[l.node_id] = node]
    IN IF l.zone_id # NoZone
         THEN [stored EXCEPT !.loc[w].pc = "check", !.loc[w].mac_address = "",
                             !.loc[w].node_id = 0, !.loc[w].node_status = ""]
         ELSE Finish(stored, w)

\* _process_sensor_data, lines 113-127: the readings of this message, and the
\* defaults of the two kinds it does not carry, overwrite the stored ones; the
\* document read at line 108 is written back whole.
ProcessSensorDataUpdate(st, w) ==
    LET l == st.loc[w]
        node == [mac_address |-> l.mac_address,
                 zone_id |-> l.zone_id,
                 status |-> l.node_status,
                 has_readings |-> TRUE,
                 temp_level |-> l.val_temp,
                 smoke_level |-> l.val_smoke,
                 flame_detected |-> l.val_flame]
        stored == [st EXCEPT !.nodes[l.node_id] = node]
    IN IF l.zone_id # NoZone /\ l.node_status = "Active"
         THEN [stored EXCEPT !.loc[w].pc = "check", !.loc[w].mac_address = "",
                             !.loc[w].node_id = 0, !.loc[w].node_status = ""]
         ELSE Finish(stored, w)

\* (variant: with no cause left, the zone goes back to Active by itself)
CheckZoneThresholdsAutoResolve(st, w) ==
    LET l == st.loc[w] IN
    IF ~ZoneExists(st, l.zone_id)
      THEN Finish(st, w)
      ELSE LET zone == st.zones[l.zone_id]
               alarm_type == AlarmType(l.val_temp, l.val_smoke, l.val_flame,
                                       zone.temp_threshold, zone.smoke_threshold)
           IN IF alarm_type # NoAlarm
                THEN [st EXCEPT !.loc[w].pc = "trg_get_zone",
                                !.loc[w].alarm_type = alarm_type,
                                !.loc[w].val_temp = 0,
                                !.loc[w].val_smoke = 0,
                                !.loc[w].val_flame = FALSE]
                ELSE Finish([st EXCEPT !.zones[l.zone_id].status = "Active"], w)

\* _check_zone_thresholds, lines 129-158.  With no cause and the zone Active,
\* line 158 reads zone['profile']['mac_address'], a key zone profiles do not
\* have (fcs_api.py lines 18-25): the KeyError ends the handler (line 87)
\* before anything is published, whatever the query of line 153 returned.
CheckZoneThresholds(st, w) ==
    LET l == st.loc[w] IN
    IF ~ZoneExists(st, l.zone_id)
      THEN Finish(st, w)
      ELSE LET zone == st.zones[l.zone_id]
               alarm_type == AlarmType(l.val_temp, l.val_smoke, l.val_flame,
                                       zone.temp_threshold, zone.smoke_threshold)
           IN IF alarm_type # NoAlarm
                THEN [st EXCEPT !.loc[w].pc = "trg_get_zone",
                                !.loc[w].alarm_type = alarm_type,
                                !.loc[w].val_temp = 0,
                                !.loc[w].val_smoke = 0,
                                !.loc[w].val_flame = FALSE]
                ELSE Finish(st, w)

\* _trigger_alarm, lines 168-170: the zone is read again; a missing zone makes
\* line 169 raise, which ends the handler
TriggerAlarmGetZone(st, w) ==
    IF ~ZoneExists(st, st.loc[w].zone_id)
      THEN Finish(st, w)
      ELSE [st EXCEPT !.loc[w].pc = "trg_upd_zone"]

\* (variant: the new status is set on the copy but the zone is not written back)
TriggerAlarmUpdateZoneNotWritten(st, w) == [st EXCEPT !.loc[w].pc = "trg_query_alarms"]

\* _trigger_alarm, line 171: the zone is written back with the new status
TriggerAlarmUpdateZone(st, w) ==
    LET l == st.loc[w]
        written == IF ZoneExists(st, l.zone_id)
                     THEN [st EXCEPT !.zones[l.zone_id].status = l.alarm_type]
                     ELSE st
    IN [written EXCEPT !.loc[w].pc = "trg_query_alarms"]

\* _trigger_alarm, lines 173-178: the open alarms of the zone
TriggerAlarmQuery(st, w) ==
    IF OpenAlarms(st, st.loc[w].zone_id) = {}
      THEN [st EXCEPT !.loc[w].pc = "trg_save_alarm"]
      ELSE [st EXCEPT !.loc[w].pc = "trg_send"]

\* (variant: an alarm record of the zone that is closed is opened again)
TriggerAlarmSaveReopens(st, w) ==
    LET l == st.loc[w]
        closed == {i \in DOMAIN st.alarms :
                     st.alarms[i].zone_id = l.zone_id /\ st.alarms[i].end_time # "null"}
    IN IF closed = {}
         THEN [st EXCEPT !.alarms = Append(@, NewAlarm(l.zone_id, l.alarm_type)),
                         !.loc[w].pc = "trg_send"]
         ELSE [st EXCEPT !.alarms[First(closed)] = NewAlarm(l.zone_id, l.alarm_type),
                         !.loc[w].pc = "trg_send"]

\* _trigger_alarm, lines 179-191: a new open alarm record
TriggerAlarmSave(st, w) ==
    LET l == st.loc[w] IN
    [st EXCEPT !.alarms = Append(@, NewAlarm(l.zone_id, l.alarm_type)),
               !.loc[w].pc = "trg_send"]

\* (variant: the command is dropped as if the client were not connected)
SendCommandDropped(st, mac_address, command) == st

\* send_command, lines 226-232.  A message handler runs on the client's
\* network loop, where the client is connected: the command is published.
SendCommand(st, mac_address, command) ==
    [st EXCEPT !.published = @ \cup {[mac_address |-> mac_address, command |-> command]}]

\* _trigger_alarm, lines 193-195: actuate every node of the zone
TriggerAlarmSend(st, w) ==
    LET targets == {st.nodes[i].mac_address : i \in NodesInZone(st, st.loc[w].zone_id)}
        Send[S \in SUBSET targets] ==
            IF S = {} THEN st
            ELSE LET m == CHOOSE x \in S : TRUE
                 IN SendCommand(Send[S \ {m}], m, "actuate_alarm")
    IN Finish(Send[targets], w)

\* The step a handler takes next, by its position
StepOf(st, w) ==
    CASE st.loc[w].pc = "disc_query" -> HandleDiscoveryQuery(st, w)
      [] st.loc[w].pc = "disc_save" -> HandleDiscoverySave(st, w)
      [] st.loc[w].pc = "upd_node" -> ProcessSensorDataUpdate(st, w)
      [] st.loc[w].pc = "check" -> CheckZoneThresholds(st, w)
      [] st.loc[w].pc = "trg_get_zone" -> TriggerAlarmGetZone(st, w)
      [] st.loc[w].pc = "trg_upd_zone" -> TriggerAlarmUpdateZone(st, w)
      [] st.loc[w].pc = "trg_query_alarms" -> TriggerAlarmQuery(st, w)
      [] st.loc[w].pc = "trg_save_alarm" -> TriggerAlarmSave(st, w)
      [] st.loc[w].pc = "trg_send" -> TriggerAlarmSend(st, w)

\* A handler run from its current position to its end with nothing in between
RECURSIVE Run(_, _)
Run(st, w) == IF st.loc[w].pc = "idle" THEN st ELSE Run(StepOf(st, w), w)

\* The whole of _on_message for one message, run without interruption
Handle(st, topic, payload) == Run(OnMessage(st, MainWorker, topic, payload), MainWorker)

\* ------------------------------------------------------------- fcs_api.py
\* Each REST handler maps the state to the state after it and the status
\* code it answers with.  Raises(now) marks the first evaluation of
\* datetime.now(datetime.timezone.utc) on the handler's path: it raises
\* AttributeError and the handler answers 500.
Answer(st, code) == [st |-> st, code |-> code]

\* create_zone, lines 8-31: the timestamp of line 21 raises
create_zone(st, has_name) ==
    IF ~has_name THEN Answer(st, 400) ELSE Answer(st, 500)

\* (variant: the failure of the node loop does not stop the delete)
delete_zone_anyway(st, zone_id) ==
    IF ~ZoneExists(st, zone_id) THEN Answer(st, 404)
    ELSE Answer([st EXCEPT !.zones = [z \in DOMAIN st.zones \ {zone_id} |-> st.zones[z]]], 200)

\* delete_zone, lines 44-63: with a node in the zone, line 57 raises before
\* the first node is written back, and the zone is kept
delete_zone(st, zone_id) ==
    IF ~ZoneExists(st, zone_id) THEN Answer(st, 404)
    ELSE IF NodesInZone(st, zone_id) # {} THEN Answer(st, 500)
    ELSE Answer([st EXCEPT !.zones = [z \in DOMAIN st.zones \ {zone_id} |-> st.zones[z]]], 200)

\* resolve_alarms, lines 65-101: for a zone in an alarm status, line 82
\* raises before any alarm or the zone is written
resolve_alarms(st, zone_id) ==
    IF ~ZoneExists(st, zone_id) THEN Answer(st, 404)
    ELSE IF st.zones[zone_id].status \in {"Inactive", "Active"} THEN Answer(st, 200)
    ELSE Answer(st, 500)

\* create_node, lines 126-149: the timestamp of line 140 raises
create_node(st, has_mac_address) ==
    IF ~has_mac_address THEN Answer(st, 400) ELSE Answer(st, 500)

\* assign_node, lines 151-172: line 167 raises before the node is written
assign_node(st, node_id, zone_id) ==
    IF ~ZoneExists(st, zone_id) THEN Answer(st, 404)
    ELSE IF node_id \notin DOMAIN st.nodes THEN Answer(st, 404)
    ELSE Answer(st, 500)

\* detach_node, lines 174-190: line 185 raises before the node is written
detach_node(st, node_id) ==
    IF node_id \notin DOMAIN st.nodes THEN Answer(st, 404) ELSE Answer(st, 500)

\* trigger_alarm, lines 213-257: line 240 raises before the alarm is inserted
trigger_alarm(st, has_fields, zone_id, trigger_cause) ==
    IF ~has_fields THEN Answer(st, 400)
    ELSE IF trigger_cause \notin {"manual", "temp", "smoke", "flame"} THEN Answer(st, 400)
    ELSE IF ~ZoneExists(st, zone_id) THEN Answer(st, 404)
    ELSE Answer(st, 500)

\* ----------------------------------------------------------------- actions
Commit(st) ==
    /\ zones' = st.zones
    /\ nodes' = st.nodes
    /\ alarms' = st.alarms
    /\ loc' = st.loc
    /\ published' = st.published

\* A message arrives and handler w takes it up
Receive(w) ==
    /\ loc[w].pc = "idle"
    /\ Len(alarms) < MaxAlarms
    /\ \E topic \in RacingTopics, payload \in RacingPayloads :
         Commit(OnMessage(St, w, topic, payload))

\* Handler w takes its next step
Step(w) ==
    /\ loc[w].pc # "idle"
    /\ Commit(StepOf(St, w))

\* One message handled from arrival to end, as on a single network loop
Message ==
    /\ Len(alarms) < MaxAlarms
    /\ \E topic \in Topics, payload \in Payloads : Commit(Handle(St, topic, payload))

CreateZone == \E has_name \in BOOLEAN : Commit(create_zone(St, has_name).st)
DeleteZone == \E zone_id \in ZoneIds : Commit(delete_zone(St, zone_id).st)
ResolveAlarms == \E zone_id \in ZoneIds : Commit(resolve_alarms(St, zone_id).st)
CreateNode == \E has_mac_address \in BOOLEAN : Commit(create_node(St, has_mac_address).st)
AssignNode ==
    \E node_id \in 1..(Len(nodes) + 1), zone_id \in ZoneIds :
        Commit(assign_node(St, node_id, zone_id).st)
DetachNode == \E node_id \in 1..(Len(nodes) + 1) : Commit(detach_node(St, node_id).st)
TriggerAlarm ==
    \E has_fields \in BOOLEAN, zone_id \in ZoneIds, trigger_cause \in TriggerCauses :
        Commit(trigger_alarm(St, has_fields, zone_id, trigger_cause).st)

Rest ==
    \/ CreateZone
    \/ DeleteZone
    \/ ResolveAlarms
    \/ CreateNode
    \/ AssignNode
    \/ DetachNode
    \/ TriggerAlarm

\* Message handlers and REST handlers, their store calls interleaved
Next ==
    \/ \E w \in Workers : Receive(w) \/ Step(w)
    \/ Rest

\* One message or one REST request at a time
NextSeq ==
    \/ Message
    \/ Rest

Spec == Init /\ [][Next]_vars

SpecSeq == InitSeq /\ [][NextSeq]_vars

\* ------------------------------------------------------------------ claims
AllIdle == \A w \in Workers : loc[w].pc = "idle"

\* The node a message from mac_address is attributed to, and its zone
KnownNode(mac_address) == NodesByMac(St, mac_address) # {}
NodeOf(mac_address) == nodes[First(NodesByMac(St, mac_address))]
ActiveMember(mac_address) ==
    /\ KnownNode(mac_address)
    /\ NodeOf(mac_address).status = "Active"
    /\ NodeOf(mac_address).zone_id \in DOMAIN zones

SensorTopic(mac_address, sensor_type) == <<"devices", mac_address, "sensor", sensor_type>>

\* The cause the threshold check derives from one message for a zone
CauseOf(sensor_type, payload, zone_id) ==
    LET r == ParseReading(sensor_type, payload)
    IN IF r.ok
         THEN AlarmType(r.val_temp, r.val_smoke, r.val_flame,
                        zones[zone_id].temp_threshold, zones[zone_id].smoke_threshold)
         ELSE NoAlarm

SensorInputs == {"temp", "smoke", "flame"} \X (Payloads \ {BadBytes})

\* C1: in every reachable state each zone has at most one alarm record whose
\* end_time is null.
C1_AtMostOneOpenAlarm ==
    \A z \in ZoneIds : Cardinality(OpenAlarms(St, z)) <= 1

\* C2: of two handlers working on the same zone at most one takes itself for
\* the first to open an alarm: the handlers about to insert an alarm record
\* for a zone, together with the zone's open alarm records, number at most one.
C2_AtMostOneFirstOpener ==
    \A z \in ZoneIds :
        Cardinality({w \in Workers : loc[w].pc = "trg_save_alarm" /\ loc[w].zone_id = z})
            + Cardinality(OpenAlarms(St, z)) <= 1

\* C3: when a zone is in alarm status c with an open alarm record, handling a
\* further reading that evaluates to the same cause c creates no alarm record
\* and publishes no command.
C3_RetriggerHasNoEffect ==
    \A m \in Macs, in \in SensorInputs :
        LET z == NodeOf(m).zone_id
            after == Handle(St, SensorTopic(m, in[1]), in[2])
        IN (/\ AllIdle
            /\ ActiveMember(m)
            /\ zones[z].status \in AlarmCauses
            /\ OpenAlarms(St, z) # {}
            /\ CauseOf(in[1], in[2], z) = zones[z].status)
           => after.alarms = alarms /\ after.published = {}

\* C4: a resolve of a zone in an alarm status, with no other operation under
\* way, leaves the zone Active and none of its alarm records open.
C4_ResolveClosesAll ==
    \A z \in DOMAIN zones :
        LET after == resolve_alarms(St, z).st
        IN (AllIdle /\ zones[z].status \in AlarmCauses)
           => after.zones[z].status = "Active" /\ OpenAlarms(after, z) = {}

C6_OneNodePerAddress ==
    /\ \A m \in Macs : Cardinality(NodesByMac(St, m)) <= 1
    /\ \A m \in Macs, topic \in Topics, payload \in Payloads :
         LET after == Handle(St, topic, payload)
             first == /\ Len(topic) >= 3
                      /\ topic[2] = m
                      /\ IsUtf8(payload)
                      /\ \/ topic[3] = "discovery" /\ payload = "online"
                         \/ /\ topic[3] = "sensor"
                            /\ Len(topic) > 3
                            /\ ParseReading(topic[4], payload).ok
         IN (loc[MainWorker].pc = "idle" /\ ~KnownNode(m) /\ first)
            => /\ Cardinality(NodesByMac(after, m)) = 1
               /\ \A i \in NodesByMac(after, m) :
                    after.nodes[i].status = "Provisioning" /\ after.nodes[i].zone_id = NoZone

\* Two handlers have both looked up the same unknown address and one of them
\* has inserted the record while the other is about to insert.
C6_Witness ==
    \E w \in Workers, m \in Macs :
        /\ loc[w].pc = "disc_save"
        /\ loc[w].mac_address = m
        /\ Cardinality(NodesByMac(St, m)) = 1
        /\ NodeOf(m).status = "Provisioning"

\* C7: a temperature reading above the threshold from an Active node of an
\* Active zone without open alarm leaves the zone in status Temperature with
\* exactly one open alarm record, of cause Temperature, and actuate_alarm
\* published to every node of the zone.
C7_TemperatureOpensAlarm ==
    \A m \in Macs, payload \in Payloads :
        LET z == NodeOf(m).zone_id
            after == Handle(St, SensorTopic(m, "temp"), payload)
        IN (/\ AllIdle
            /\ ActiveMember(m)
            /\ zones[z].status = "Active"
            /\ OpenAlarms(St, z) = {}
            /\ IsFloat(payload)
            /\ ToFloat(payload) > zones[z].temp_threshold)
           => /\ after.zones[z].status = "Temperature"
              /\ Cardinality(OpenAlarms(after, z)) = 1
              /\ \A i \in OpenAlarms(after, z) : after.alarms[i].trigger_cause = "Temperature"
              /\ \A i \in NodesInZone(after, z) :
                   [mac_address |-> after.nodes[i].mac_address, command |-> "actuate_alarm"]
                       \in after.published

\* The first alarm of z1 has just been opened by a temperature reading and
\* both of its nodes have been sent actuate_alarm.
C7_Witness ==
    /\ zones["z1"].status = "Temperature"
    /\ Len(alarms) = 1
    /\ alarms[1] = NewAlarm("z1", "Temperature")
    /\ Cardinality(NodesInZone(St, "z1")) = 2
    /\ published = {[mac_address |-> m, command |-> "actuate_alarm"] : m \in Macs}
    /\ \E i \in DOMAIN nodes : nodes[i].temp_level > zones["z1"].temp_threshold

\* C8: handling a sensor message leaves the status of a zone that is in an
\* alarm status as it is.
C8_CauseIsKept ==
    \A m \in Macs, in \in SensorInputs, z \in DOMAIN zones :
        LET after == Handle(St, SensorTopic(m, in[1]), in[2])
        IN (AllIdle /\ zones[z].status \in AlarmCauses)
           => after.zones[z].status = zones[z].status

\* A step that moves a zone from an alarm status to Active or closes an alarm
ResolveEffect ==
    \/ \E z \in DOMAIN zones \cap DOMAIN zones' :
         zones[z].status \in AlarmCauses /\ zones'[z].status = "Active"
    \/ \E i \in DOMAIN alarms :
         alarms[i].end_time = "null" /\ (i \notin DOMAIN alarms' \/ alarms'[i].end_time # "null")

\* A step of the administrative resolve
ResolveStep == \E z \in ZoneIds : Commit(resolve_alarms(St, z).st)

\* C9: a step that moves a zone from an alarm status to Active, or closes an
\* alarm record, is a step of the administrative resolve, also when the
\* readings have fallen back under the thresholds.
C9_OnlyResolveResolves == [][ResolveEffect => ResolveStep]_vars

\* The only node has had a reading under the thresholds handled to the end
\* while its zone is in an alarm status with an open alarm record.
C9_Witness ==
    /\ AllIdle
    /\ Len(nodes) = 1
    /\ nodes[1].has_readings
    /\ AlarmType(nodes[1].temp_level, nodes[1].smoke_level, nodes[1].flame_detected,
                 zones["z1"].temp_threshold, zones["z1"].smoke_threshold) = NoAlarm
    /\ zones["z1"].status \in AlarmCauses
    /\ OpenAlarms(St, "z1") # {}

\* C10: no zone is Active while one of its alarm records is open.
C10_ActiveHasNoOpenAlarm ==
    \A z \in DOMAIN zones : zones[z].status = "Active" => OpenAlarms(St, z) = {}

\* An alarm record of z1 is open while another handler, having written the
\* zone's status, is about to look for open alarms.
C10_Witness ==
    /\ OpenAlarms(St, "z1") # {}
    /\ \E w \in Workers : loc[w].pc = "trg_query_alarms" /\ loc[w].zone_id = "z1"

\* C11: a resolve of a zone in an alarm status, with no other operation under
\* way, leaves stop_alarm published to every node assigned to the zone.
C11_ResolvePublishesStop ==
    \A z \in DOMAIN zones :
        LET after == resolve_alarms(St, z).st
        IN (AllIdle /\ zones[z].status \in AlarmCauses)
           => \A i \in NodesInZone(St, z) :
                [mac_address |-> nodes[i].mac_address, command |-> "stop_alarm"]
                    \in after.published

\* C12: in every reachable state no node record has status Active while its
\* zone reference is empty.
C12_NoActiveWithoutZone ==
    \A i \in DOMAIN nodes : nodes[i].status = "Active" => nodes[i].zone_id # NoZone

\* A node without zone, created by discovery, has had a sensor reading stored
\* and a handler is at work on a message of an assigned node.
C12_Witness ==
    /\ \E i \in DOMAIN nodes :
         /\ nodes[i].zone_id = NoZone
         /\ nodes[i].status = "Provisioning"
         /\ nodes[i].has_readings
    /\ \E w \in Workers : loc[w].pc = "upd_node" /\ loc[w].zone_id # NoZone

\* Reading values the threshold evaluation is applied to: the values of the
\* payloads above
Levels == {ToFloat(payload) : payload \in {p \in Payloads : IsFloat(p)}}

\* The cause by the priority Flame, then Temperature, then Smoke
FlameFirst(val_temp, val_smoke, val_flame, temp_threshold, smoke_threshold) ==
    IF val_flame THEN "Flame"
    ELSE IF val_temp > temp_threshold THEN "Temperature"
    ELSE IF val_smoke > smoke_threshold THEN "Smoke"
    ELSE NoAlarm

\* C13: for every combination of temperature, smoke and flame values, and the
\* thresholds of every zone, the threshold evaluation yields Flame when flame
\* is detected, otherwise Temperature when the temperature exceeds its
\* threshold, otherwise Smoke when the smoke level exceeds its threshold,
\* otherwise no cause.
C13_FlameBeforeTemperatureBeforeSmoke ==
    \A val_temp \in Levels, val_smoke \in Levels, val_flame \in BOOLEAN, z \in DOMAIN zones :
        AlarmType(val_temp, val_smoke, val_flame,
                  zones[z].temp_threshold, zones[z].smoke_threshold)
            = FlameFirst(val_temp, val_smoke, val_flame,
                         zones[z].temp_threshold, zones[z].smoke_threshold)

\* C14: a temperature or smoke reading equal to the zone's threshold opens no
\* alarm, changes no zone and publishes nothing; a reading that changes the
\* zone or the alarms is strictly greater than the threshold, and a strictly
\* greater reading puts the zone in the corresponding cause.
C14_ThresholdIsStrict ==
    \A m \in Macs, sensor_type \in {"temp", "smoke"}, payload \in Payloads :
        LET z == NodeOf(m).zone_id
            after == Handle(St, SensorTopic(m, sensor_type), payload)
            threshold == IF sensor_type = "temp" THEN zones[z].temp_threshold
                                                 ELSE zones[z].smoke_threshold
            cause == IF sensor_type = "temp" THEN "Temperature" ELSE "Smoke"
            value == ToFloat(payload)
        IN (AllIdle /\ ActiveMember(m) /\ IsFloat(payload))
           => /\ value = threshold
                   => after.zones = zones /\ after.alarms = alarms /\ after.published = {}
              /\ (after.zones # zones \/ after.alarms # alarms) => value > threshold
              /\ value > threshold => after.zones[z].status = cause

\* A reading equal to the threshold has been handled: it is the stored reading
\* of an Active node whose zone is still Active and has no alarm.
C14_Witness ==
    /\ alarms = <<>>
    /\ \E i \in DOMAIN nodes :
         /\ nodes[i].status = "Active"
         /\ nodes[i].zone_id \in DOMAIN zones
         /\ zones[nodes[i].zone_id].status = "Active"
         /\ nodes[i].has_readings
         /\ \/ nodes[i].temp_level = zones[nodes[i].zone_id].temp_threshold
            \/ nodes[i].smoke_level = zones[nodes[i].zone_id].smoke_threshold

\* C15: handling a sensor message of one kind leaves the node's stored
\* readings of the other two kinds as they were before the message.
C15_OtherReadingsAreKept ==
    \A m \in Macs, in \in SensorInputs :
        LET i == First(NodesByMac(St, m))
            after == Handle(St, SensorTopic(m, in[1]), in[2])
        IN (AllIdle /\ KnownNode(m) /\ ParseReading(in[1], in[2]).ok)
           => /\ in[1] # "temp" => after.nodes[i].temp_level = nodes[i].temp_level
              /\ in[1] # "smoke" => after.nodes[i].smoke_level = nodes[i].smoke_level
              /\ in[1] # "flame" => after.nodes[i].flame_detected = nodes[i].flame_detected

\* A message the handler has to reject: a topic of fewer than three segments,
\* a payload that is not UTF-8, a discovery payload other than "online", a
\* temp or smoke payload that is not a number
Malformed(topic, payload) ==
    \/ Len(topic) < 3
    \/ ~IsUtf8(payload)
    \/ Len(topic) >= 3 /\ topic[3] = "discovery" /\ payload # "online"
    \/ /\ Len(topic) > 3
       /\ topic[3] = "sensor"
       /\ topic[4] \in {"temp", "smoke"}
       /\ ~IsFloat(payload)

\* C16: handling a malformed message leaves every zone, node and alarm record
\* as it was and publishes no command, and the handler ends ready for the
\* next message.
C16_MalformedIsHarmless ==
    \A topic \in Topics, payload \in Payloads :
        LET after == Handle(St, topic, payload)
        IN (loc[MainWorker].pc = "idle" /\ Malformed(topic, payload))
           => /\ after.zones = zones
              /\ after.nodes = nodes
              /\ after.alarms = alarms
              /\ after.published = {}
              /\ after.loc[MainWorker].pc = "idle"

\* With a zone in alarm and a second node known, malformed messages of each
\* of the four kinds are handled without effect, and the reading that follows
\* is stored.
C16_Witness ==
    /\ zones["z1"].status \in AlarmCauses
    /\ OpenAlarms(St, "z1") # {}
    /\ KnownNode("m2")
    /\ \A bad \in {<<(<<"devices", "m2">>), "online">>,
                   <<(<<"devices", "m2", "discovery">>), BadBytes>>,
                   <<(<<"devices", "m2", "discovery">>), "0">>,
                   <<(<<"devices", "m2", "sensor", "temp">>), "abc">>} :
         /\ Malformed(bad[1], bad[2])
         /\ Handle(St, bad[1], bad[2]).nodes = nodes
         /\ LET next == Handle(Handle(St, bad[1], bad[2]),
                               <<"devices", "m2", "sensor", "temp">>, "50.0")
            IN next.nodes[First(NodesByMac(St, "m2"))].temp_level = 50

\* C17: a sensor message from a node without zone or with a status other than
\* Active stores the reading it carries in the node record, changes no zone,
\* creates no alarm record and publishes no command.
C17_IdleNodeNeverTriggers ==
    \A m \in Macs, in \in SensorInputs :
        LET i == First(NodesByMac(St, m))
            r == ParseReading(in[1], in[2])
            after == Handle(St, SensorTopic(m, in[1]), in[2])
        IN (/\ AllIdle
            /\ KnownNode(m)
            /\ nodes[i].zone_id = NoZone \/ nodes[i].status # "Active"
            /\ r.ok)
           => /\ after.zones = zones
              /\ after.alarms = alarms
              /\ after.published = {}
              /\ after.nodes[i].has_readings
              /\ after.nodes[i].status = nodes[i].status
              /\ after.nodes[i].zone_id = nodes[i].zone_id
              /\ in[1] = "temp" => after.nodes[i].temp_level = r.val_temp
              /\ in[1] = "smoke" => after.nodes[i].smoke_level = r.val_smoke
              /\ in[1] = "flame" => after.nodes[i].flame_detected = r.val_flame

\* A node registered for z1 but still Provisioning has a temperature over the
\* threshold stored, and z1 is Active without any alarm.
C17_Witness ==
    /\ zones["z1"].status = "Active"
    /\ alarms = <<>>
    /\ \E i \in DOMAIN nodes :
         /\ nodes[i].status = "Provisioning"
         /\ nodes[i].zone_id = "z1"
         /\ nodes[i].has_readings
         /\ nodes[i].temp_level > zones["z1"].temp_threshold

\* C18: for a zone whose status is Inactive, neither a sensor message from one
\* of its Active nodes nor a manual trigger changes the zone's status or
\* opens an alarm record.
C18_InactiveZoneStaysInactive ==
    \A z \in DOMAIN zones :
        (AllIdle /\ zones[z].status = "Inactive")
        => /\ \A m \in Macs, in \in SensorInputs :
                LET after == Handle(St, SensorTopic(m, in[1]), in[2])
                IN (ActiveMember(m) /\ NodeOf(m).zone_id = z)
                   => after.zones[z].status = "Inactive" /\ after.alarms = alarms
           /\ \A trigger_cause \in TriggerCauses :
                LET after == trigger_alarm(St, TRUE, z, trigger_cause).st
                IN after.zones[z].status = "Inactive" /\ after.alarms = alarms

\* C19: a manual trigger on an Active zone, with no other operation under way,
\* leaves the zone in an alarm status with exactly one open alarm record and
\* actuate_alarm published to every node of the zone; on a zone that is in an
\* alarm status it opens no further alarm record.
C19_ManualTriggerActsLikeSensor ==
    \A z \in DOMAIN zones :
        LET after == trigger_alarm(St, TRUE, z, "manual").st
        IN /\ (AllIdle /\ zones[z].status = "Active")
              => /\ after.zones[z].status \notin {"Active", "Inactive"}
                 /\ Cardinality(OpenAlarms(after, z)) = 1
                 /\ \A i \in NodesInZone(St, z) :
                      [mac_address |-> nodes[i].mac_address, command |-> "actuate_alarm"]
                          \in after.published
           /\ (AllIdle /\ zones[z].status \in AlarmCauses)
              => Len(after.alarms) = Len(alarms)

\* C20: no step changes an alarm record whose end_time is set: the record
\* stays in the store with the same end_time, trigger cause and zone.
C20_ClosedAlarmIsKept ==
    [][\A i \in DOMAIN alarms :
          alarms[i].end_time # "null" => i \in DOMAIN alarms' /\ alarms'[i] = alarms[i]]_vars

\* Beside a closed alarm record of z1 a later one is open, the zone being in
\* an alarm status for which a resolve is answered with an error.
C20_Witness ==
    /\ Len(alarms) >= 2
    /\ alarms[1] = ClosedAlarm("z1", "Temperature")
    /\ OpenAlarms(St, "z1") # {}
    /\ zones["z1"].status \in AlarmCauses
    /\ resolve_alarms(St, "z1").code = 500

\* C21: in every reachable state the status of a zone that has an open alarm
\* record equals the trigger cause of that record, and a zone whose status is
\* an alarm cause has an open alarm record of that cause.
C21_StatusMatchesOpenAlarm ==
    \A z \in DOMAIN zones :
        /\ \A i \in OpenAlarms(St, z) :
             zones[z].status \in AlarmCauses /\ zones[z].status = alarms[i].trigger_cause
        /\ zones[z].status \in AlarmCauses
             => \E i \in OpenAlarms(St, z) : alarms[i].trigger_cause = zones[z].status
====
